---- MODULE Spec2Model ----
(***************************************************************************)
(* Client-side logic of the Purpose Activation Toolkit (frontend script).  *)
(* The model covers the token storage (localStorage), the helper           *)
(* refreshAccessToken, the request wrapper apiFetch and the event handlers  *)
(* that call them.  Every await of the script is a point where another     *)
(* handler may run, so each call in flight has a position (pc) and the     *)
(* actions are the steps between two awaits.                               *)
(***************************************************************************)
EXTENDS Integers, Sequences, FiniteSets, TLC

VARIABLES
    access_token,   \* localStorage item 'access_token' (None when absent)
    refresh_token,  \* localStorage item 'refresh_token' (None when absent)
    calls,          \* the handler invocations, one record per invocation
    probe           \* one application of a function of the program to an input

vars == <<access_token, refresh_token, calls, probe>>

\* ------------------------------------------------------------------ bounds
\* Number of handler invocations of one run; they may overlap in time.
MaxCalls == 2

\* Largest number of questions of an assessment definition.
MaxQuestions == 2

\* Largest number of responses of an audit.
MaxAuditLength == 4

\* Number of form submissions and button clicks on the page in one run.
MaxSubmissions == 2

Calls == 1..MaxCalls

\* ------------------------------------------------------------ value domains
None == "none"                  \* localStorage.getItem(...) === null, or no header

AccessTokens == {"a1", "a2"}
RefreshTokens == {"r1", "r2"}

\* Parsed bodies.  Every datum is a record of one shape so that any two can be
\* compared: type "object" carries the four fields the script reads (None when
\* the field is missing), type "string" carries text, type "null" is JSON null.
Data(type, detail, message, at, rt, text) ==
    [type |-> type, detail |-> detail, message |-> message,
     access_token |-> at, refresh_token |-> rt, text |-> text]

Obj(detail, message, at, rt) == Data("object", detail, message, at, rt, None)
Str(text) == Data("string", None, None, None, None, text)
JsonNull == Data("null", None, None, None, None, None)
NoData == Data("nodata", None, None, None, None, None)
SyntaxError == "SyntaxError"     \* what response.json() rejects with
TypeError == "TypeError"         \* what fetch() rejects with (transport failure)

\* Raw bodies a server sends, as text.
BodySaved == "{\"message\":\"saved\"}"
BodyDenied == "{\"detail\":\"denied\"}"
BodyGarbage == "oops"
BodyPair1 == "{\"access_token\":\"a1\",\"refresh_token\":\"r1\"}"
BodyPair2 == "{\"access_token\":\"a2\",\"refresh_token\":\"r2\"}"
BodyAccess1 == "{\"access_token\":\"a1\"}"
BodyAccess2 == "{\"access_token\":\"a2\"}"
BodyNull == "null"
BodyBoth == "{\"detail\":\"denied\",\"message\":\"saved\"}"
BodyEmptyDetail == "{\"detail\":\"\",\"message\":\"saved\"}"
BodyEmptyFields == "{\"detail\":\"\",\"message\":\"\"}"
BodyEmptyObject == "{}"
BodyJsonString == "\"gone\""
BodyBlank == " \n"
BodyEmpty == ""

\* JSON.parse on the bodies above; Absent marks a body that is not JSON.
NotJson == Data("notjson", None, None, None, None, None)
JsonParse(body) ==
    CASE body = BodySaved -> Obj(None, "saved", None, None)
      [] body = BodyDenied -> Obj("denied", None, None, None)
      [] body = BodyPair1 -> Obj(None, None, "a1", "r1")
      [] body = BodyPair2 -> Obj(None, None, "a2", "r2")
      [] body = BodyAccess1 -> Obj(None, None, "a1", None)
      [] body = BodyAccess2 -> Obj(None, None, "a2", None)
      [] body = BodyNull -> JsonNull
      [] body = BodyBoth -> Obj("denied", "saved", None, None)
      [] body = BodyEmptyDetail -> Obj("", "saved", None, None)
      [] body = BodyEmptyFields -> Obj("", "", None, None)
      [] body = BodyEmptyObject -> Obj(None, None, None, None)
      [] body = BodyJsonString -> Str("gone")
      [] OTHER -> NotJson

ContentJson == "application/json"
ContentText == "text/plain"
ContentJsonCharset == "application/json; charset=utf-8"
ContentProblemJson == "application/problem+json"
ContentJsonUpper == "Application/JSON"

Response(status, ctype, body) == [status |-> status, ctype |-> ctype, body |-> body]
NoResponse == Response(0, None, None)

\* response.ok
Ok(status) == status >= 200 /\ status <= 299


\* ------------------------------------------------------------- the handlers
\* The handlers that go through apiFetch, and the button that calls
\* refreshAccessToken directly.
ApiKinds == {"login", "intent", "audit", "resources", "assessments",
             "integrations", "score", "reminder"}
RefreshButton == "refreshButton"
Kinds == ApiKinds \cup {RefreshButton}

\* The url each handler passes to apiFetch.
UrlOf(kind) ==
    CASE kind = "login" -> "/api/token"
      [] kind = "intent" -> "/api/intent"
      [] kind = "audit" -> "/api/audit"
      [] kind = "resources" -> "/api/resources"
      [] kind = "assessments" -> "/api/assessments"
      [] kind = "integrations" -> "/api/integrations"
      [] kind = "score" -> "/api/assessments/score"
      [] kind = "reminder" -> "/api/reminders/{journeyId}"
      [] OTHER -> None

RefreshUrl == "/api/token/refresh"

\* Variant: the audit submission passes { auth: true } as well.
AuthOf_AuditToo(kind) == kind \in {"score", "reminder", "audit"}

\* config.auth of each handler's apiFetch call: the third argument is
\* { auth: true } for the score submission and the reminder, absent otherwise
\* (auth = false by the default of the destructuring).
AuthOf(kind) == kind \in {"score", "reminder"}

\* ------------------------------------------------------------ pure helpers
\* JavaScript truthiness of a parsed body.
Truthy(data) ==
    \/ data.type = "object"
    \/ data.type = "string" /\ data.text # ""

\* JavaScript truthiness of a field: missing (undefined) and '' are falsy.
Present(field) == field # None /\ field # ""

\* storeTokens(payload): the value of each stored item afterwards.
StoredAccess(payload, current) ==
    IF Truthy(payload) /\ Present(payload.access_token)
    THEN payload.access_token ELSE current

\* Variant: a payload without refresh_token removes the stored refresh token.
StoredRefresh_ClearsWhenOmitted(payload, current) ==
    IF Truthy(payload) /\ Present(payload.refresh_token)
    THEN payload.refresh_token ELSE None

StoredRefresh(payload, current) ==
    IF Truthy(payload) /\ Present(payload.refresh_token)
    THEN payload.refresh_token ELSE current

\* String.prototype.trim: white space removed at both ends.
WhiteSpace == {" ", "\n", "\t"}

RECURSIVE TrimStart(_)
TrimStart(text) ==
    IF Len(text) > 0 /\ SubSeq(text, 1, 1) \in WhiteSpace
    THEN TrimStart(SubSeq(text, 2, Len(text))) ELSE text

RECURSIVE TrimEnd(_)
TrimEnd(text) ==
    IF Len(text) > 0 /\ SubSeq(text, Len(text), Len(text)) \in WhiteSpace
    THEN TrimEnd(SubSeq(text, 1, Len(text) - 1)) ELSE text

Trim(text) == TrimEnd(TrimStart(text))

\* `Request failed with status ${response.status}`
GenericMessage(status) == "Request failed with status " \o ToString(status)

\* The message of the Error apiFetch throws for a non-ok response.
ErrorMessage(status, data) ==
    IF Truthy(data) /\ Present(data.detail) THEN data.detail
    ELSE IF Truthy(data) /\ Present(data.message) THEN data.message
    ELSE IF data.type = "string" /\ Trim(data.text) # "" THEN data.text
    ELSE GenericMessage(status)

\* String.prototype.includes
Includes(text, part) ==
    \E i \in 1..(Len(text) - Len(part) + 1) : SubSeq(text, i, i + Len(part) - 1) = part

\* response.headers.get('content-type') || ''
ContentTypeHeader(ctype) == IF ctype = None THEN "" ELSE ctype

\* Variant: the content type is compared for equality.
IsJson_Exact(ctype) == ctype = ContentJson

IsJson(ctype) == Includes(ContentTypeHeader(ctype), "application/json")

\* isJson ? await response.json() : await response.text()
ReadBody(response) ==
    IF IsJson(response.ctype) THEN JsonParse(response.body) ELSE Str(response.body)

Returned(data) == [result |-> "returned", data |-> data, message |-> ""]
Raised(message) == [result |-> "raised", data |-> NoData, message |-> message]

\* Variant: the body is always read with response.text(), never parsed.
Outcome_Unparsed(response) ==
    IF response.status = 204 THEN Returned(JsonNull)
    ELSE IF ~Ok(response.status)
         THEN Raised(ErrorMessage(response.status, Str(response.body)))
         ELSE Returned(Str(response.body))

\* Variant: the status 204 is not singled out, the body is read as for any
\* other response.
Outcome_No204Check(response) ==
    LET data == ReadBody(response) IN
    IF data = NotJson THEN Raised(SyntaxError)
    ELSE IF ~Ok(response.status) THEN Raised(ErrorMessage(response.status, data))
    ELSE Returned(data)

\* What apiFetch does with a response it does not retry: lines 95-111.
Outcome(response) ==
    IF response.status = 204 THEN Returned(JsonNull)
    ELSE LET data == ReadBody(response) IN
         IF data = NotJson THEN Raised(SyntaxError)
         ELSE IF ~Ok(response.status) THEN Raised(ErrorMessage(response.status, data))
         ELSE Returned(data)

\* Variant: the retry flag is not consulted.
EntersRefresh_IgnoresRetryFlag(status, auth, retryOnUnauthorized) ==
    status = 401 /\ auth

\* Variant: config.auth is not consulted.
EntersRefresh_IgnoresAuth(status, auth, retryOnUnauthorized) ==
    status = 401 /\ retryOnUnauthorized

\* Variant: a single-flight guard, no refresh while another call's refresh is
\* under way.
EntersRefresh_SingleFlight(status, auth, retryOnUnauthorized) ==
    /\ status = 401 /\ auth /\ retryOnUnauthorized
    /\ \A d \in DOMAIN calls : calls[d].pc \notin {"refresh", "refreshJson"}

\* response.status === 401 && auth && retryOnUnauthorized
EntersRefresh(status, auth, retryOnUnauthorized) ==
    status = 401 /\ auth /\ retryOnUnauthorized

\* Variant: the header is set whenever a token is stored.
AuthorizationHeader_IgnoresAuth(auth, accessToken) == accessToken

\* The Authorization header apiFetch sets (the token after "Bearer "), None
\* when it sets none.
AuthorizationHeader(auth, accessToken) ==
    IF auth /\ accessToken # None THEN accessToken ELSE None

\* ----------------------------------------------------- the request headers
\* A Headers object is a set of <<name, value>> pairs, names in lower case (the
\* Headers class compares names without regard to case).
Lower(name) ==
    CASE name = "Content-Type" -> "content-type"
      [] name = "CONTENT-TYPE" -> "content-type"
      [] name = "Accept" -> "accept"
      [] OTHER -> name

\* new Headers(options.headers || {}): options.headers undefined and {} are
\* the same input, the empty set of pairs.
NewHeaders(init) == {<<Lower(pair[1]), pair[2]>> : pair \in init}

HeadersHas(headers, name) == \E pair \in headers : pair[1] = Lower(name)

HeadersGet(headers, name) ==
    IF HeadersHas(headers, name)
    THEN (CHOOSE pair \in headers : pair[1] = Lower(name))[2] ELSE None

HeadersSet(headers, name, value) ==
    {pair \in headers : pair[1] # Lower(name)} \cup {<<Lower(name), value>>}

\* The kinds of value options.body takes.
BodyKinds == {"undefined", "null", "string", "emptyString", "FormData", "URLSearchParams"}

\* options.body !== undefined && options.body !== null
HasBody(body) == body \notin {"undefined", "null"}

\* Variant: the FormData test is left out.
RequestHeaders_FormDataToo(options) ==
    LET headers == NewHeaders(options.headers) IN
    IF HasBody(options.body) /\ ~HeadersHas(headers, "Content-Type")
    THEN HeadersSet(headers, "Content-Type", ContentJson) ELSE headers

\* The headers of the request before the Authorization header: lines 72-76.
RequestHeaders(options) ==
    LET headers == NewHeaders(options.headers) IN
    IF /\ HasBody(options.body)
       /\ options.body # "FormData"
       /\ ~HeadersHas(headers, "Content-Type")
    THEN HeadersSet(headers, "Content-Type", ContentJson) ELSE headers

\* --------------------------------------------------------------- responses
TargetStatuses == {200, 204, 401, 500}
TargetBodies == {<<ContentJson, BodySaved>>, <<ContentJson, BodyDenied>>,
                 <<ContentJson, BodyGarbage>>, <<ContentText, BodyGarbage>>}
LoginStatuses == {200, 401}
LoginBodies == {<<ContentJson, BodyPair1>>, <<ContentJson, BodyAccess1>>,
                <<ContentJson, BodyDenied>>, <<ContentText, BodyPair1>>}
RefreshStatuses == {200, 401}
RefreshBodies == {BodyPair2, BodyAccess2, BodyNull, BodyGarbage}

ResponsesFor(kind) ==
    IF kind = "login"
    THEN {Response(s, b[1], b[2]) : s \in LoginStatuses, b \in LoginBodies}
    ELSE {Response(s, b[1], b[2]) : s \in TargetStatuses, b \in TargetBodies}

\* Every response of the model; FetchResponds keeps those of the call's kind.
Responses == ResponsesFor("login") \cup ResponsesFor("score")

\* ------------------------------------------------------------------- state
Request(url, authorization) == [url |-> url, authorization |-> authorization]

IdleCall ==
    [kind |-> None, pc |-> "idle", retryOnUnauthorized |-> TRUE,
     requests |-> <<>>, statuses |-> <<>>, response |-> NoResponse,
     refreshed |-> "none", result |-> "pending", data |-> NoData,
     message |-> "", raisedBy |-> "none", overlapped |-> FALSE,
     missing |-> FALSE]

\* A call is in flight between its first request and its end.
InFlight(call) == call.pc \notin {"idle", "done", "refused"}

\* History kept for the statements about concurrent calls: overlapped is TRUE
\* for a call once it was in flight at the same time as another call.  The
\* new call c starts as started; the calls in flight at that moment are marked.
Started(c, started) ==
    [d \in Calls |->
        IF d = c THEN [started EXCEPT !.overlapped = \E e \in Calls \ {c} : InFlight(calls[e])]
        ELSE IF InFlight(calls[d]) /\ InFlight(started)
             THEN [calls[d] EXCEPT !.overlapped = TRUE]
             ELSE calls[d]]

\* No function is being applied: the value of probe while the handlers run.
NoProbe == [fn |-> None]

\* localStorage outlives the page, so the script starts with whatever an
\* earlier visit stored: each item absent or present.
Init ==
    /\ access_token \in AccessTokens \cup {None}
    /\ refresh_token \in RefreshTokens \cup {None}
    /\ calls = [c \in Calls |-> IdleCall]
    /\ probe = NoProbe

\* The call ends: apiFetch returns or throws into the handler's try/catch.
Completed(call, outcome, raisedBy) ==
    [call EXCEPT !.pc = "done", !.result = outcome.result, !.data = outcome.data,
                 !.message = outcome.message,
                 !.raisedBy = IF outcome.result = "raised" THEN raisedBy ELSE "none"]

\* Variant: a login that fails throws the stored session away.
AfterApiFetch_ClearsOnFailure(call, outcome) ==
    IF call.kind = "login" /\ outcome.result = "returned"
    THEN /\ access_token' = StoredAccess(outcome.data, access_token)
         /\ refresh_token' = StoredRefresh(outcome.data, refresh_token)
    ELSE IF call.kind = "login"
         THEN access_token' = None /\ refresh_token' = None
         ELSE UNCHANGED <<access_token, refresh_token>>

\* The handler's continuation after apiFetch: only the login handler touches
\* the storage, calling storeTokens(data) when apiFetch returned.
AfterApiFetch(call, outcome) ==
    IF call.kind = "login" /\ outcome.result = "returned"
    THEN /\ access_token' = StoredAccess(outcome.data, access_token)
         /\ refresh_token' = StoredRefresh(outcome.data, refresh_token)
    ELSE UNCHANGED <<access_token, refresh_token>>

\* A handler whose input passed its guards runs up to the first await of
\* apiFetch: the request is sent with the access token read now.  Calls are
\* numbered in the order they start (call c starts after the calls before it),
\* which only fixes their names.
Submit(c, kind) ==
    /\ calls[c].pc = "idle"
    /\ \A d \in Calls : d < c => calls[d].pc # "idle"
    /\ kind \in ApiKinds
    /\ calls' = Started(c,
          [calls[c] EXCEPT !.kind = kind, !.pc = "fetch",
                    !.requests = <<Request(UrlOf(kind),
                         AuthorizationHeader(AuthOf(kind), access_token))>>])
    /\ UNCHANGED <<access_token, refresh_token>>
    /\ UNCHANGED probe

\* The handlers that check their input before calling apiFetch, and the status
\* text each shows when the check fails.
GuardedKinds == {"login", "score", "reminder"}

GuardMessage(kind) ==
    CASE kind = "login" -> "Please enter both username and password."
      [] kind = "score" -> "Please provide an assessment and score."
      [] kind = "reminder" -> "Journey ID is required to send a reminder."
      [] OTHER -> None

\* Variant: the handler does not look at its input and calls apiFetch.
SubmitIncomplete_NoGuard(c, kind) ==
    /\ calls[c].pc = "idle"
    /\ \A d \in Calls : d < c => calls[d].pc # "idle"
    /\ kind \in GuardedKinds
    /\ calls' = Started(c,
          [calls[c] EXCEPT !.kind = kind, !.pc = "fetch", !.missing = TRUE,
                    !.requests = <<Request(UrlOf(kind),
                         AuthorizationHeader(AuthOf(kind), access_token))>>])
    /\ UNCHANGED <<access_token, refresh_token>>
    /\ UNCHANGED probe

\* A handler whose required input is missing (username or password;
\* assessment_id or score; journey id): setStatus(element, text, true) and
\* return, before apiFetch is called.
SubmitIncomplete(c, kind) ==
    /\ calls[c].pc = "idle"
    /\ \A d \in Calls : d < c => calls[d].pc # "idle"
    /\ kind \in GuardedKinds
    /\ calls' = [calls EXCEPT ![c] =
          [@ EXCEPT !.kind = kind, !.pc = "refused", !.missing = TRUE,
                    !.message = GuardMessage(kind), !.raisedBy = "guard"]]
    /\ UNCHANGED <<access_token, refresh_token>>
    /\ UNCHANGED probe

\* fetch(url) rejects: the error leaves apiFetch as it is.
FetchFails(c) ==
    /\ calls[c].pc = "fetch"
    /\ calls' = [calls EXCEPT ![c] = Completed(@, Raised(TypeError), "transport")]
    /\ UNCHANGED <<access_token, refresh_token>>
    /\ UNCHANGED probe

\* fetch(url) resolves with a response.
FetchResponds(c, response) ==
    LET call == calls[c]
        got == [call EXCEPT !.response = response,
                            !.statuses = Append(@, response.status)]
    IN
    /\ call.pc = "fetch"
    /\ response \in ResponsesFor(call.kind)
    /\ IF EntersRefresh(response.status, AuthOf(call.kind), call.retryOnUnauthorized)
       THEN IF refresh_token = None
            THEN \* refreshAccessToken returns false before any request
                 /\ calls' = [calls EXCEPT ![c] =
                       Completed([got EXCEPT !.refreshed = "false"],
                                 Outcome(response), "response")]
                 /\ UNCHANGED <<access_token, refresh_token>>
            ELSE /\ calls' = [calls EXCEPT ![c] =
                       [got EXCEPT !.pc = "refresh", !.refreshed = "pending",
                                   !.requests = Append(@, Request(RefreshUrl, refresh_token))]]
                 /\ UNCHANGED <<access_token, refresh_token>>
       ELSE /\ calls' = [calls EXCEPT ![c] = Completed(got, Outcome(response), "response")]
            /\ AfterApiFetch(call, Outcome(response))
    /\ UNCHANGED probe

\* The refresh button: refreshAccessToken called directly.
ClickRefresh(c) ==
    /\ calls[c].pc = "idle"
    /\ \A d \in Calls : d < c => calls[d].pc # "idle"
    /\ IF refresh_token = None
       THEN calls' = Started(c,
               [calls[c] EXCEPT !.kind = RefreshButton, !.pc = "done", !.refreshed = "false"])
       ELSE calls' = Started(c,
               [calls[c] EXCEPT !.kind = RefreshButton, !.pc = "refresh", !.refreshed = "pending",
                         !.requests = <<Request(RefreshUrl, refresh_token)>>])
    /\ UNCHANGED <<access_token, refresh_token>>
    /\ UNCHANGED probe

\* fetch('/api/token/refresh') rejects: refreshAccessToken has no catch, and
\* neither has apiFetch, so the rejection is what the caller gets.
RefreshFetchFails(c) ==
    /\ calls[c].pc = "refresh"
    /\ calls' = [calls EXCEPT ![c] =
          Completed([@ EXCEPT !.refreshed = "threw"], Raised(TypeError), "refresh")]
    /\ UNCHANGED <<access_token, refresh_token>>
    /\ UNCHANGED probe

\* The refresh response arrives with a non-ok status: clearTokens, return
\* false; apiFetch goes on with the response it holds.
RefreshRejected(c, status) ==
    LET call == calls[c]
        failed == [call EXCEPT !.refreshed = "false"]
    IN
    /\ call.pc = "refresh"
    /\ status \in RefreshStatuses
    /\ ~Ok(status)
    /\ access_token' = None
    /\ refresh_token' = None
    /\ IF call.kind = RefreshButton
       THEN calls' = [calls EXCEPT ![c] = [failed EXCEPT !.pc = "done"]]
       ELSE calls' = [calls EXCEPT ![c] =
               Completed(failed, Outcome(call.response), "response")]
    /\ UNCHANGED probe

\* The refresh response arrives with an ok status: await res.json().
RefreshAccepted(c, status) ==
    /\ calls[c].pc = "refresh"
    /\ status \in RefreshStatuses
    /\ Ok(status)
    /\ calls' = [calls EXCEPT ![c] = [@ EXCEPT !.pc = "refreshJson"]]
    /\ UNCHANGED <<access_token, refresh_token>>
    /\ UNCHANGED probe

\* Variant: the retry is sent with the headers built for the first attempt.
RefreshJson_StaleToken(c, body) ==
    LET call == calls[c]
        data == JsonParse(body)
        newAccess == StoredAccess(data, access_token)
    IN
    /\ call.pc = "refreshJson"
    /\ body \in RefreshBodies
    /\ IF data = NotJson
       THEN /\ calls' = [calls EXCEPT ![c] =
                  Completed([call EXCEPT !.refreshed = "threw"],
                            Raised(SyntaxError), "refresh")]
            /\ UNCHANGED <<access_token, refresh_token>>
       ELSE /\ access_token' = newAccess
            /\ refresh_token' = StoredRefresh(data, refresh_token)
            /\ IF call.kind = RefreshButton
               THEN calls' = [calls EXCEPT ![c] =
                       [call EXCEPT !.pc = "done", !.refreshed = "true"]]
               ELSE calls' = [calls EXCEPT ![c] =
                       [call EXCEPT !.pc = "fetch", !.refreshed = "true",
                                    !.retryOnUnauthorized = FALSE,
                                    !.response = NoResponse,
                                    !.requests = Append(@, Request(UrlOf(call.kind),
                                        call.requests[1].authorization))]]
    /\ UNCHANGED probe

\* res.json() of the refresh response settles.  Rejected: the SyntaxError
\* leaves refreshAccessToken and apiFetch.  Resolved: storeTokens(data), return
\* true, and apiFetch calls itself with retryOnUnauthorized false, which sends
\* the request again with the access token read now.
RefreshJson(c, body) ==
    LET call == calls[c]
        data == JsonParse(body)
        newAccess == StoredAccess(data, access_token)
    IN
    /\ call.pc = "refreshJson"
    /\ body \in RefreshBodies
    /\ IF data = NotJson
       THEN /\ calls' = [calls EXCEPT ![c] =
                  Completed([call EXCEPT !.refreshed = "threw"],
                            Raised(SyntaxError), "refresh")]
            /\ UNCHANGED <<access_token, refresh_token>>
       ELSE /\ access_token' = newAccess
            /\ refresh_token' = StoredRefresh(data, refresh_token)
            /\ IF call.kind = RefreshButton
               THEN calls' = [calls EXCEPT ![c] =
                       [call EXCEPT !.pc = "done", !.refreshed = "true"]]
               ELSE calls' = [calls EXCEPT ![c] =
                       [call EXCEPT !.pc = "fetch", !.refreshed = "true",
                                    !.retryOnUnauthorized = FALSE,
                                    !.response = NoResponse,
                                    !.requests = Append(@, Request(UrlOf(call.kind),
                                        AuthorizationHeader(AuthOf(call.kind), newAccess)))]]
    /\ UNCHANGED probe

Next ==
    \E c \in Calls :
        \/ \E kind \in ApiKinds : Submit(c, kind)
        \/ \E kind \in GuardedKinds : SubmitIncomplete(c, kind)
        \/ ClickRefresh(c)
        \/ FetchFails(c)
        \/ \E response \in Responses : FetchResponds(c, response)
        \/ RefreshFetchFails(c)
        \/ \E status \in RefreshStatuses : RefreshRejected(c, status)
        \/ \E status \in RefreshStatuses : RefreshAccepted(c, status)
        \/ \E body \in RefreshBodies : RefreshJson(c, body)

Spec == Init /\ [][Next]_vars

\* The network exchange call c waits for ends: fetch resolves or rejects, the
\* body of the refresh response is read.
Settles(c) ==
    \/ FetchFails(c)
    \/ \E response \in Responses : FetchResponds(c, response)
    \/ RefreshFetchFails(c)
    \/ \E status \in RefreshStatuses : RefreshRejected(c, status)
    \/ \E status \in RefreshStatuses : RefreshAccepted(c, status)
    \/ \E body \in RefreshBodies : RefreshJson(c, body)

\* The page is loaded with the tokens of an earlier login, or with none.
InitFair ==
    /\ access_token \in {"a1", None}
    /\ refresh_token \in {"r1", None}
    /\ calls = [c \in Calls |-> IdleCall]
    /\ probe = NoProbe

\* The script on a network in which every exchange responds or fails.
FairSpec == InitFair /\ [][Next]_vars /\ \A c \in Calls : WF_vars(Settles(c))

TypeOK ==
    /\ access_token \in AccessTokens \cup {None}
    /\ refresh_token \in RefreshTokens \cup {None}
    /\ \A c \in Calls :
        /\ calls[c].pc \in {"idle", "fetch", "refresh", "refreshJson", "done", "refused"}
        /\ calls[c].kind \in Kinds \cup {None}
        /\ Len(calls[c].requests) <= 3

\* ------------------------------- apiFetch on one set of options, one response
\* apiFetch(url, options) with the default config applied to one input: probe
\* holds the input, then the input with what apiFetch made of it.
ProbeStatuses == {200, 201, 204, 400, 401, 404, 500}
ProbeContentTypes == {None, ContentJson, ContentJsonCharset, ContentProblemJson,
                      ContentText, ContentJsonUpper}
ProbeBodies == {BodySaved, BodyDenied, BodyGarbage, BodyPair1, BodyNull, BodyBoth,
                BodyEmptyDetail, BodyEmptyFields, BodyEmptyObject, BodyJsonString,
                BodyBlank, BodyEmpty}
ProbeResponses ==
    {Response(s, t, b) : s \in ProbeStatuses, t \in ProbeContentTypes, b \in ProbeBodies}

ProbeHeaders == {{}, {<<"Accept", ContentText>>},
                 {<<"Content-Type", ContentText>>},
                 {<<"content-type", "multipart/form-data">>},
                 {<<"CONTENT-TYPE", ContentJsonCharset>>},
                 {<<"Accept", ContentJson>>, <<"content-type", ContentText>>}}
ProbeOptions == [body : BodyKinds, headers : ProbeHeaders]

Pending == [result |-> "pending", data |-> NoData, message |-> ""]

InitApiFetch ==
    /\ access_token = None
    /\ refresh_token = None
    /\ calls = [c \in Calls |-> IdleCall]
    /\ \/ \E response \in ProbeResponses :
            probe = [fn |-> "response", done |-> FALSE, response |-> response,
                     out |-> Pending]
       \/ \E options \in ProbeOptions :
            probe = [fn |-> "options", done |-> FALSE, options |-> options,
                     sent |-> {}]

\* Lines 72-76: the headers apiFetch hands to fetch.
ApiFetchBuildsHeaders ==
    /\ probe.fn = "options" /\ ~probe.done
    /\ probe' = [probe EXCEPT !.done = TRUE, !.sent = RequestHeaders(probe.options)]
    /\ UNCHANGED <<access_token, refresh_token, calls>>

\* Lines 88-111 for a call without auth: the response is final.
ApiFetchReadsResponse ==
    /\ probe.fn = "response" /\ ~probe.done
    /\ ~EntersRefresh(probe.response.status, FALSE, TRUE)
    /\ probe' = [probe EXCEPT !.done = TRUE, !.out = Outcome(probe.response)]
    /\ UNCHANGED <<access_token, refresh_token, calls>>

NextApiFetch == ApiFetchBuildsHeaders \/ ApiFetchReadsResponse

SpecApiFetch == InitApiFetch /\ [][NextApiFetch]_vars

\* ----------------------------------------------- the scoring service (backend)
\* score(definition, responses) and scoreAudit(responses) as the specification
\* of the backend describes them (sections 3, 4.1, 4.2 and 7).
RECURSIVE Sum(_)
Sum(seq) == IF seq = <<>> THEN 0 ELSE seq[1] + Sum(Tail(seq))

Band(min, max, interpretation, guidance) ==
    [min |-> min, max |-> max, interpretation |-> interpretation, guidance |-> guidance]

ValidationError == "ValidationError"
ConfigurationError == "ConfigurationError"
NoBand == Band(0, 0, None, None)

Failure(error) ==
    [kind |-> error, total |-> 0, max_score |-> 0, average |-> <<0, 1>>,
     interpretation |-> None, guidance |-> None]

\* average is total / question count as the exact fraction <<total, count>>.
ScoreResult(total, maxScore, count, band) ==
    [kind |-> "ScoreResult", total |-> total, max_score |-> maxScore,
     average |-> <<total, count>>,
     interpretation |-> band.interpretation, guidance |-> band.guidance]

\* Variant: only a list that is too short is refused.
CountMismatch_OnlyTooFew(definition, responses) ==
    Len(responses) < Len(definition.questions)

\* len(responses) != len(definition.questions)
CountMismatch(definition, responses) ==
    Len(responses) # Len(definition.questions)

\* Variant: only the first response is compared with the scale.
OutOfRange_FirstOnly(definition, responses) ==
    /\ responses # <<>>
    /\ \/ responses[1] < definition.scale.min
       \/ responses[1] > definition.scale.max

\* some response lies outside [scale.min, scale.max]
OutOfRange(definition, responses) ==
    \E i \in 1..Len(responses) :
        \/ responses[i] < definition.scale.min
        \/ responses[i] > definition.scale.max

\* Variant: the span of the scale is counted instead of its maximum.
MaxScore_Span(definition) ==
    Len(definition.questions) * (definition.scale.max - definition.scale.min)

\* Max score = len(questions) * scale.max
MaxScore(definition) == Len(definition.questions) * definition.scale.max

\* Variant: the upper end of a band is taken as exclusive.
InBand_ExclusiveMax(band, total) == band.min <= total /\ total < band.max

\* the inclusive range of the band contains the total
InBand(band, total) == band.min <= total /\ total <= band.max

\* Iterate the bands in definition order; the first whose range contains the
\* total, NoBand when none does.
RECURSIVE SelectBand(_, _)
SelectBand(bands, total) ==
    IF bands = <<>> THEN NoBand
    ELSE IF InBand(bands[1], total) THEN bands[1]
    ELSE SelectBand(Tail(bands), total)

Score(definition, responses) ==
    IF CountMismatch(definition, responses) THEN Failure(ValidationError)
    ELSE IF OutOfRange(definition, responses) THEN Failure(ValidationError)
    ELSE LET total == Sum(responses)
             band == SelectBand(definition.bands, total)
         IN  IF band = NoBand THEN Failure(ConfigurationError)
             ELSE ScoreResult(total, MaxScore(definition), Len(definition.questions), band)

\* Variant: a score equal to the threshold already recommends mentorship.
MentorshipRecommended_AtThreshold(score, threshold) == score >= threshold

\* true above the threshold
MentorshipRecommended(score, threshold) == score > threshold

\* The description is banded by the thresholds of the configuration: the
\* number of thresholds the score is above names the band.
Description(score, thresholds) ==
    Cardinality({i \in 1..Len(thresholds) : score > thresholds[i]})

\* scoreAudit(responses) under a configuration of thresholds; no response is
\* refused.
ScoreAudit(config, responses) ==
    LET score == Sum(responses) IN
    [score |-> score,
     description |-> Description(score, config.thresholds),
     mentorship_recommended |-> MentorshipRecommended(score, config.mentorship)]

\* ------------------------------------------------------- scoring, the inputs
Scales == {[min |-> 1, max |-> 5], [min |-> 0, max |-> 2]}

Questions(count) == [i \in 1..count |-> "prompt"]

\* Band tables for a maximal score and a minimal total: one band, a partition
\* in two (in ascending and in descending order), two bands sharing an
\* endpoint, two bands with a gap between them, and a partition whose first
\* band lies below every total the scale can give.
BandTables(maxScore, minTotal) ==
    LET half == maxScore \div 2 IN
    {<<Band(0, maxScore, "only", "g-only")>>,
     <<Band(0, half, "low", "g-low"), Band(half + 1, maxScore, "high", "g-high")>>,
     <<Band(half + 1, maxScore, "high", "g-high"), Band(0, half, "low", "g-low")>>,
     <<Band(0, half, "low", "g-low"), Band(half, maxScore, "high", "g-high")>>,
     <<Band(0, half - 1, "low", "g-low"), Band(half + 1, maxScore, "high", "g-high")>>}
    \cup (IF minTotal >= 1
          THEN {<<Band(0, minTotal - 1, "below", "g-below"),
                  Band(minTotal, maxScore, "rest", "g-rest")>>}
          ELSE {})

Definitions ==
    UNION {{[questions |-> Questions(count), scale |-> scale, bands |-> bands] :
                bands \in BandTables(count * scale.max, count * scale.min)} :
           count \in 1..MaxQuestions, scale \in Scales}

\* Response lists for a definition: up to one response too many, values from
\* one below the scale to one above it.
ResponseLists(definition) ==
    UNION {[1..len -> (definition.scale.min - 1)..(definition.scale.max + 1)] :
           len \in 0..(Len(definition.questions) + 1)}

AuditValues == {-1, 0, 3, 9}
AuditLists == UNION {[1..len -> AuditValues] : len \in 0..MaxAuditLength}
AuditConfigs == {[thresholds |-> <<5, 10>>, mentorship |-> 10],
                 [thresholds |-> <<6, 12>>, mentorship |-> 12],
                 [thresholds |-> <<0>>, mentorship |-> 0]}

InitScoring ==
    /\ access_token = None
    /\ refresh_token = None
    /\ calls = [c \in Calls |-> IdleCall]
    /\ \/ \E definition \in Definitions : \E responses \in ResponseLists(definition) :
            probe = [fn |-> "score", done |-> FALSE, definition |-> definition,
                     responses |-> responses, result |-> Failure(None)]
       \/ \E config \in AuditConfigs : \E responses \in AuditLists :
            probe = [fn |-> "scoreAudit", done |-> FALSE, config |-> config,
                     responses |-> responses,
                     result |-> [score |-> 0, description |-> 0,
                                 mentorship_recommended |-> FALSE]]

ApplyScore ==
    /\ probe.fn = "score" /\ ~probe.done
    /\ probe' = [probe EXCEPT !.done = TRUE,
                              !.result = Score(probe.definition, probe.responses)]
    /\ UNCHANGED <<access_token, refresh_token, calls>>

ApplyScoreAudit ==
    /\ probe.fn = "scoreAudit" /\ ~probe.done
    /\ probe' = [probe EXCEPT !.done = TRUE,
                              !.result = ScoreAudit(probe.config, probe.responses)]
    /\ UNCHANGED <<access_token, refresh_token, calls>>

NextScoring == ApplyScore \/ ApplyScoreAudit

SpecScoring == InitScoring /\ [][NextScoring]_vars

\* ------------------------------------------- the generated assessment form
\* renderAssessments of the assessments page: one select per question with one
\* option per scale value, and the submit handler that posts the selected
\* values.
Number(value) == [isNaN |-> FALSE, value |-> value]
NaN == [isNaN |-> TRUE, value |-> 0]

Digits == "0123456789"
IsDigit(ch) == \E d \in 1..Len(Digits) : SubSeq(Digits, d, d) = ch
DigitValue(ch) == (CHOOSE d \in 1..Len(Digits) : SubSeq(Digits, d, d) = ch) - 1

\* The value of the leading decimal digits of text after acc.
RECURSIVE ParseDigits(_, _)
ParseDigits(text, acc) ==
    IF Len(text) > 0 /\ IsDigit(SubSeq(text, 1, 1))
    THEN ParseDigits(SubSeq(text, 2, Len(text)), 10 * acc + DigitValue(SubSeq(text, 1, 1)))
    ELSE acc

\* parseInt(text, 10): leading white space, an optional sign, then digits up
\* to the first other character; NaN when there is no digit.
ParseInt(text) ==
    LET start == TrimStart(text)
        signed == Len(start) > 0 /\ SubSeq(start, 1, 1) \in {"-", "+"}
        rest == IF signed THEN SubSeq(start, 2, Len(start)) ELSE start
    IN  IF Len(rest) = 0 \/ ~IsDigit(SubSeq(rest, 1, 1)) THEN NaN
        ELSE IF signed /\ SubSeq(start, 1, 1) = "-"
             THEN Number(0 - ParseDigits(rest, 0))
             ELSE Number(ParseDigits(rest, 0))

\* Variant: the options are counted from 0 instead of scale.min.
SelectOptions_FromZero(scale) ==
    IF scale.max < 0 THEN <<>>
    ELSE [i \in 1..(scale.max + 1) |-> ToString(i - 1)]

\* for (value = scale.min; value <= scale.max; value += 1): option.value =
\* String(value)
SelectOptions(scale) ==
    IF scale.max < scale.min THEN <<>>
    ELSE [i \in 1..(scale.max - scale.min + 1) |-> ToString(scale.min + i - 1)]

\* A select element: its option values and the selected one (0 when it has no
\* option).  A new select has its first option selected.
Select(options) == [options |-> options, selectedIndex |-> IF options = <<>> THEN 0 ELSE 1]

\* select.value: '' when nothing is selected
SelectValue(select) ==
    IF select.selectedIndex = 0 THEN "" ELSE select.options[select.selectedIndex]

ScoreUrl(id) == "/api/assessments/" \o ToString(id) \o "/score"

\* Scales of the definitions the page loads; the last one is not a scale a
\* valid definition has (min above max).
FormScales == {[min |-> 1, max |-> 5], [min |-> 0, max |-> 2], [min |-> -2, max |-> 1],
               [min |-> 2, max |-> 2], [min |-> 3, max |-> 1]}

FormDefinitions ==
    {[id |-> 7, questions |-> Questions(count), scale |-> scale] :
        count \in 0..MaxQuestions, scale \in FormScales}

InitForm ==
    /\ access_token = None
    /\ refresh_token = None
    /\ calls = [c \in Calls |-> IdleCall]
    /\ \E definition \in FormDefinitions :
          probe = [fn |-> "form", definition |-> definition, rendered |-> FALSE,
                   selects |-> <<>>, posted |-> FALSE, url |-> None, responses |-> <<>>]

\* assessment.questions.forEach: the form gets its selects.
RenderForm ==
    /\ probe.fn = "form" /\ ~probe.rendered
    /\ probe' = [probe EXCEPT !.rendered = TRUE,
                   !.selects = [q \in 1..Len(probe.definition.questions) |->
                                   Select(SelectOptions(probe.definition.scale))]]
    /\ UNCHANGED <<access_token, refresh_token, calls>>

\* The visitor picks an option of a select.
ChooseOption(q, i) ==
    /\ probe.fn = "form" /\ probe.rendered /\ ~probe.posted
    /\ q \in 1..Len(probe.selects)
    /\ i \in 1..Len(probe.selects[q].options)
    /\ probe' = [probe EXCEPT !.selects[q].selectedIndex = i]
    /\ UNCHANGED <<access_token, refresh_token, calls>>

\* The submit handler: the values of the selects, parsed, are posted.
SubmitForm ==
    /\ probe.fn = "form" /\ probe.rendered /\ ~probe.posted
    /\ probe' = [probe EXCEPT !.posted = TRUE,
                   !.url = ScoreUrl(probe.definition.id),
                   !.responses = [q \in 1..Len(probe.selects) |->
                                     ParseInt(SelectValue(probe.selects[q]))]]
    /\ UNCHANGED <<access_token, refresh_token, calls>>

\* Most options any select of the model has.
MostOptions ==
    LET sizes == {Len(SelectOptions(scale)) : scale \in FormScales}
    IN  CHOOSE n \in sizes : \A m \in sizes : m <= n

NextForm ==
    \/ RenderForm
    \/ \E q \in 1..MaxQuestions : \E i \in 1..MostOptions : ChooseOption(q, i)
    \/ SubmitForm

SpecForm == InitForm /\ [][NextForm]_vars

\* ------------------------------------- the page: handlers and their elements
\* The intention form, the audit form and loadAssessments, with the elements
\* they write.  apiFetch is called without auth by the three of them: it
\* returns the parsed body, a text or null, or throws an Error with a message.

\* A value apiFetch returns.  type is "null", "string", "array" or "object";
\* items are the elements of an array; assessments is the field of that name
\* of an object ("missing", "null" or "array", with its elements in items).
Value(type, message, assessments, items, score, description, mentorship) ==
    [type |-> type, message |-> message, assessments |-> assessments, items |-> items,
     score |-> score, description |-> description, mentorship_recommended |-> mentorship]

NullValue == Value("null", None, "missing", <<>>, 0, 0, FALSE)
TextValue == Value("string", None, "missing", <<>>, 0, 0, FALSE)
MessageValue(message) == Value("object", message, "missing", <<>>, 0, 0, FALSE)
ArrayValue(items) == Value("array", None, "missing", items, 0, 0, FALSE)
ListValue(assessments, items) == Value("object", None, assessments, items, 0, 0, FALSE)
AuditValue(result) ==
    Value("object", None, "missing", <<>>, result.score, result.description,
          result.mentorship_recommended)

PageReturned(value) == [result |-> "returned", value |-> value, message |-> ""]
PageRaised(message) == [result |-> "raised", value |-> NullValue, message |-> message]
NoResult == [result |-> "pending", value |-> NullValue, message |-> ""]

\* The message of the TypeError a property read on null throws.
NullRead(field) == "Cannot read properties of null (reading '" \o field \o "')"

\* The assessments the backend lists.
Item(title, name, description, url, link) ==
    [title |-> title, name |-> name, description |-> description, url |-> url, link |-> link]
ItemLists == {<<>>,
              <<Item("Purpose", None, "Find it", "/a/1", None)>>,
              <<Item(None, "Values", None, None, "/a/2"), Item(None, None, None, None, None)>>}

\* What apiFetch can give each handler: the bodies of its endpoint, null for
\* a response without content, a text, and the errors it throws.
PageKinds == {"intent", "audit", "assessments"}
AuditInputs == {<<3, 3, 3, 3>>, <<1, 1, 1, 1>>}
AuditConfig == [thresholds |-> <<5, 10>>, mentorship |-> 10]
InputsOf(kind) == IF kind = "audit" THEN AuditInputs ELSE {<<>>}

Errors == {PageRaised("denied"), PageRaised(GenericMessage(500)),
           PageRaised("Failed to fetch")}

ResultsOf(kind, input) ==
    Errors \cup {PageReturned(NullValue)} \cup
    (CASE kind = "intent" ->
            {PageReturned(MessageValue("saved")), PageReturned(MessageValue("")),
             PageReturned(MessageValue(None)), PageReturned(TextValue)}
       [] kind = "audit" -> {PageReturned(AuditValue(ScoreAudit(AuditConfig, input)))}
       [] OTHER ->
            {PageReturned(ArrayValue(items)) : items \in ItemLists}
            \cup {PageReturned(ListValue("array", items)) : items \in ItemLists}
            \cup {PageReturned(ListValue("missing", <<>>)),
                  PageReturned(ListValue("null", <<>>)), PageReturned(TextValue)})

PageResults == UNION {ResultsOf(kind, input) : kind \in PageKinds, input \in AuditInputs \cup {<<>>}}

\* An element: what it shows, its style.display and its class 'error'.
Content(kind, text, score, description, mentorship) ==
    [kind |-> kind, text |-> text, score |-> score, description |-> description,
     mentorship |-> mentorship]
Empty == Content("empty", "", 0, 0, FALSE)
Text(text) == Content("text", text, 0, 0, FALSE)
AuditHtml(value) ==
    Content("audit", "", value.score, value.description, value.mentorship_recommended)

Element(content, display, error) == [content |-> content, display |-> display, error |-> error]

\* setStatus(element, message, isError)
SetStatus(element, message, isError) == Element(Text(message), "block", isError)

\* clearStatus(element)
ClearStatus(element) == Element(Empty, "none", FALSE)

\* renderAssessments: one li per assessment, after emptying the list.
Or(a, b) == IF Present(a) THEN a ELSE b
RenderItem(assessment) ==
    [title |-> Or(assessment.title, Or(assessment.name, "Assessment")),
     description |-> IF Present(assessment.description) THEN assessment.description ELSE "",
     link |-> Or(assessment.url, assessment.link)]
RenderAssessments(assessments) ==
    [i \in 1..Len(assessments) |-> RenderItem(assessments[i])]

\* The page: the three elements, the assessments list, and the submissions.
Page(intentionResponse, auditResults, assessmentsStatus, assessmentsList) ==
    [intentionResponse |-> intentionResponse, auditResults |-> auditResults,
     assessmentsStatus |-> assessmentsStatus, assessmentsList |-> assessmentsList]

Hidden == Element(Empty, "none", FALSE)
InitialPage == Page(Hidden, Hidden, Hidden, <<>>)

\* The intention form's handler after apiFetch settled.
IntentSettled(page, result) ==
    [page EXCEPT !.intentionResponse =
        IF result.result = "raised"
        THEN SetStatus(@, "Error: " \o result.message, TRUE)
        ELSE IF result.value.type = "null"
        THEN SetStatus(@, "Error: " \o NullRead("message"), TRUE)
        ELSE SetStatus(@, Or(result.value.message, "Intention received."), FALSE)]

\* The audit form's handler after apiFetch settled: the result is written as
\* innerHTML and the element shown; its class is left as it is.
AuditSettled(page, result) ==
    [page EXCEPT !.auditResults =
        IF result.result = "raised"
        THEN SetStatus(@, "Error: " \o result.message, TRUE)
        ELSE IF result.value.type = "null"
        THEN SetStatus(@, "Error: " \o NullRead("score"), TRUE)
        ELSE Element(AuditHtml(result.value), "block", @.error)]

\* loadAssessments after apiFetch settled.
Assessments(value) ==
    IF value.type = "array" \/ value.assessments = "array" THEN value.items ELSE <<>>
NoAssessments(value) ==
    IF value.type = "array" THEN Len(value.items) = 0
    ELSE value.assessments # "array" \/ Len(value.items) = 0
AssessmentsSettled(page, result) ==
    IF result.result = "raised"
    THEN [page EXCEPT !.assessmentsStatus =
            SetStatus(@, "Unable to load assessments: " \o result.message, TRUE)]
    ELSE IF result.value.type = "null"
    THEN [page EXCEPT !.assessmentsStatus =
            SetStatus(@, "Unable to load assessments: " \o NullRead("assessments"), TRUE)]
    ELSE [page EXCEPT !.assessmentsList = RenderAssessments(Assessments(result.value)),
                      !.assessmentsStatus =
                          IF NoAssessments(result.value)
                          THEN SetStatus(@, "No assessments available yet.", FALSE)
                          ELSE @]

\* A handler's first statement: clearStatus of its element.
Cleared(page, kind) ==
    CASE kind = "intent" -> [page EXCEPT !.intentionResponse = ClearStatus(@)]
      [] kind = "audit" -> [page EXCEPT !.auditResults = ClearStatus(@)]
      [] OTHER -> [page EXCEPT !.assessmentsStatus = ClearStatus(@)]

Settled(page, kind, result) ==
    CASE kind = "intent" -> IntentSettled(page, result)
      [] kind = "audit" -> AuditSettled(page, result)
      [] OTHER -> AssessmentsSettled(page, result)

\* ------------------------------------------------- the page, the state machine
Submissions == 1..MaxSubmissions
\* started and finished place a submission in the order of completions: how
\* many submissions had completed when it began, and its rank among them.
IdleSubmission == [pc |-> "idle", kind |-> "intent", input |-> <<>>, result |-> NoResult,
                   started |-> 0, finished |-> 0]

InitPage ==
    /\ access_token = None
    /\ refresh_token = None
    /\ calls = [c \in Calls |-> IdleCall]
    /\ probe = [fn |-> "page", page |-> InitialPage,
                submissions |-> [s \in Submissions |-> IdleSubmission]]

Finished == Cardinality({s \in Submissions : probe.submissions[s].pc = "done"})

\* A submit or click event: the handler runs up to its await of apiFetch.
SubmitPage(s, kind, input) ==
    /\ probe.fn = "page"
    /\ probe.submissions[s].pc = "idle"
    /\ \A t \in Submissions : t < s => probe.submissions[t].pc # "idle"
    /\ probe' = [probe EXCEPT !.page = Cleared(@, kind),
                              !.submissions[s] = [@ EXCEPT !.pc = "pending", !.kind = kind,
                                                           !.input = input,
                                                           !.started = Finished]]
    /\ UNCHANGED <<access_token, refresh_token, calls>>

\* apiFetch settles and the rest of the handler runs.
SettlePage(s, result) ==
    /\ probe.fn = "page"
    /\ probe.submissions[s].pc = "pending"
    /\ result \in ResultsOf(probe.submissions[s].kind, probe.submissions[s].input)
    /\ probe' = [probe EXCEPT !.page = Settled(@, probe.submissions[s].kind, result),
                              !.submissions[s] = [@ EXCEPT !.pc = "done", !.result = result,
                                                           !.finished = Finished + 1]]
    /\ UNCHANGED <<access_token, refresh_token, calls>>

NextPage ==
    \/ \E s \in Submissions : \E kind \in PageKinds : \E input \in InputsOf(kind) :
            SubmitPage(s, kind, input)
    \/ \E s \in Submissions : \E result \in PageResults : SettlePage(s, result)

SpecPage == InitPage /\ [][NextPage]_vars

\* ------------------------------------------------------------ observations
Last(seq) == seq[Len(seq)]

\* How many requests of a call went to a url.
CountUrl(call, url) ==
    Cardinality({i \in 1..Len(call.requests) : call.requests[i].url = url})

RefreshRequests(call) == CountUrl(call, RefreshUrl)
TargetRequests(call) == CountUrl(call, UrlOf(call.kind))

\* The parsed body apiFetch returns for a response, written out from the
\* response alone: null for 204, the JSON value for a JSON content type, the
\* text otherwise.
ParsedBody(response) ==
    IF response.status = 204 THEN JsonNull
    ELSE IF response.ctype = ContentJson THEN JsonParse(response.body)
    ELSE Str(response.body)

\* ------------------------------------------------------------------ claims

\* C1: an auth call whose first response is 401, whose refresh succeeds and
\* whose retried request succeeds (ok status, readable body) returns the parsed
\* body of the retried response, and has called /api/token/refresh exactly once.
C1_RetriedResponseReturned ==
    \A c \in Calls :
        LET call == calls[c] IN
        ( /\ call.pc = "done" /\ call.kind \in ApiKinds /\ AuthOf(call.kind)
          /\ Len(call.statuses) = 2 /\ call.statuses[1] = 401
          /\ call.refreshed = "true"
          /\ Ok(call.statuses[2])
          /\ ParsedBody(call.response) # NotJson )
        => /\ call.result = "returned"
           /\ call.response.status = call.statuses[2]
           /\ call.data = ParsedBody(call.response)
           /\ RefreshRequests(call) = 1
           /\ call.requests[2].url = RefreshUrl
           /\ TargetRequests(call) = 2

C1_Witness ==
    \E c \in Calls :
        /\ calls[c].pc = "done" /\ calls[c].kind = "score"
        /\ calls[c].statuses = <<401, 200>>
        /\ calls[c].result = "returned"
        /\ calls[c].data = Obj(None, "saved", None, None)
        /\ RefreshRequests(calls[c]) = 1

\* C2 (as stated): whenever the refresh attempt of an auth call fails, by a
\* non-ok refresh status, a transport failure or an unparseable refresh body,
\* both stored tokens are absent after that step, the original request was not
\* retried, and the error raised is the one derived from the original 401.
C2_Original ==
    [][\A c \in Calls :
        LET old == calls[c]
            new == calls'[c]
        IN ( /\ old.kind \in ApiKinds
             /\ old.pc \in {"refresh", "refreshJson"}
             /\ new.refreshed \in {"false", "threw"} )
           => /\ access_token' = None
              /\ refresh_token' = None
              /\ TargetRequests(new) = 1
              /\ new.pc = "done"
              /\ new.result = "raised"
              /\ new.raisedBy = "response"]_vars

\* C3 (as stated): when an auth call with retryOnUnauthorized receives 401
\* while no refresh token is stored, no token remains in storage after that
\* step, no refresh request was sent, the request was not retried and the
\* original failure is raised.
C3_Original ==
    [][\A c \in Calls :
        LET old == calls[c]
            new == calls'[c]
        IN ( /\ old.pc = "fetch" /\ old.kind \in ApiKinds /\ AuthOf(old.kind)
             /\ old.retryOnUnauthorized
             /\ new.statuses = <<401>>
             /\ refresh_token = None )
           => /\ access_token' = None
              /\ refresh_token' = None
              /\ RefreshRequests(new) = 0
              /\ TargetRequests(new) = 1
              /\ new.pc = "done"
              /\ new.result = "raised"
              /\ new.raisedBy = "response"]_vars

\* C4: a call requests the refresh endpoint at most once and its target url
\* at most twice; the second request to the target runs with
\* retryOnUnauthorized false, and a 401 answering it ends the call with the
\* error of that response, without another refresh.
C4_AtMostOneRefreshPerCall ==
    \A c \in Calls :
        LET call == calls[c] IN
        call.kind \in ApiKinds =>
            /\ RefreshRequests(call) <= 1
            /\ TargetRequests(call) <= 2
            /\ Len(call.requests) <= 3
            /\ TargetRequests(call) = 2 => ~call.retryOnUnauthorized
            /\ (Len(call.statuses) = 2 /\ call.statuses[2] = 401)
                => /\ call.pc = "done"
                   /\ call.result = "raised"
                   /\ call.raisedBy = "response"

C4_Witness ==
    \E c \in Calls :
        /\ calls[c].pc = "done"
        /\ calls[c].statuses = <<401, 401>>
        /\ calls[c].result = "raised"
        /\ RefreshRequests(calls[c]) = 1
        /\ TargetRequests(calls[c]) = 2

\* C5: refreshAccessToken is called for a response exactly when its status is
\* 401 and the call has auth and retryOnUnauthorized true.  Without a refresh
\* the call ends on its single request, raising for a non-ok status; the
\* retried request (retryOnUnauthorized false) ends the call whatever it gets.
C5_RefreshOnlyOn401AuthRetry ==
    \A c \in Calls :
        LET call == calls[c] IN
        (call.kind \in ApiKinds /\ Len(call.statuses) >= 1) =>
            /\ (call.refreshed # "none")
                <=> (call.statuses[1] = 401 /\ call.kind \in {"score", "reminder"})
            /\ call.refreshed = "none"
                => /\ call.pc = "done"
                   /\ Len(call.requests) = 1
                   /\ ~Ok(call.statuses[1])
                        => (call.result = "raised" /\ call.raisedBy = "response")
            /\ Len(call.statuses) = 2
                => /\ ~call.retryOnUnauthorized
                   /\ call.pc = "done"
                   /\ RefreshRequests(call) = 1
                   /\ Len(call.requests) = 3
                   /\ ~Ok(call.statuses[2])
                        => (call.result = "raised" /\ call.raisedBy = "response")

C5_Witness ==
    \E c \in Calls :
        /\ calls[c].pc = "done" /\ calls[c].kind = "reminder"
        /\ calls[c].statuses = <<500>>
        /\ calls[c].refreshed = "none"
        /\ calls[c].result = "raised"
        /\ Len(calls[c].requests) = 1
        /\ refresh_token # None

\* C6 (as stated, and only for runs in which a refresh token was stored when
\* the first of the two 401s arrived): two auth calls that were in flight
\* together and both received 401 have each requested the refresh endpoint once
\* and each sent its request a second time.
C6_Original ==
    \A c, d \in Calls :
        ( /\ c # d
          /\ \A x \in {c, d} :
                /\ calls[x].kind \in ApiKinds /\ AuthOf(calls[x].kind)
                /\ calls[x].overlapped
                /\ calls[x].pc = "done"
                /\ Len(calls[x].statuses) >= 1 /\ calls[x].statuses[1] = 401
          /\ \E x \in {c, d} : RefreshRequests(calls[x]) = 1 )
        => \A x \in {c, d} :
                RefreshRequests(calls[x]) = 1 /\ TargetRequests(calls[x]) = 2

\* C6 (amended): the calls are not coordinated.  An auth call whose first 401
\* arrives while a refresh token is stored sends its own refresh request with
\* that token, whatever the other calls are doing; one that finds no refresh
\* token ends at once without a refresh request; and a call sends its request
\* a second time exactly when its own refresh succeeded.
C6_IndependentRefreshPerCall ==
    [][\A c \in Calls :
        LET old == calls[c]
            new == calls'[c]
        IN /\ ( /\ old.pc = "fetch" /\ old.kind \in ApiKinds /\ AuthOf(old.kind)
                /\ old.statuses = <<>> /\ new.statuses = <<401>> )
              => IF refresh_token # None
                 THEN /\ new.pc = "refresh"
                      /\ RefreshRequests(new) = 1
                      /\ Last(new.requests) = Request(RefreshUrl, refresh_token)
                 ELSE /\ new.pc = "done"
                      /\ RefreshRequests(new) = 0
                      /\ TargetRequests(new) = 1
           /\ new.kind \in ApiKinds
              => /\ RefreshRequests(new) <= 1
                 /\ TargetRequests(new) = 2 <=> new.refreshed = "true"]_vars

\* Both calls answered 401 while both were in flight, each refreshed and each
\* retried: two refresh requests in total.
C6_Witness ==
    \E c, d \in Calls :
        /\ c # d
        /\ \A x \in {c, d} :
              /\ calls[x].kind \in ApiKinds /\ AuthOf(calls[x].kind)
              /\ calls[x].overlapped
              /\ calls[x].pc = "done"
              /\ Len(calls[x].statuses) = 2 /\ calls[x].statuses[1] = 401
              /\ RefreshRequests(calls[x]) = 1
              /\ TargetRequests(calls[x]) = 2
        /\ calls[c].requests[2] = calls[d].requests[2]

\* C7: every request apiFetch sends carries an Authorization header exactly
\* when config.auth is true and an access token is stored at that moment, and
\* the header carries that token; a handler's apiFetch call always gets as far
\* as its request being in flight, token or no token (a handler whose input
\* is incomplete returns before it calls apiFetch).
C7_BearerHeaderWhenAuthAndToken ==
    [][\A c \in Calls :
        LET old == calls[c]
            new == calls'[c]
        IN /\ ( /\ Len(new.requests) > Len(old.requests)
                /\ Last(new.requests).url # RefreshUrl )
              => /\ Last(new.requests).authorization # None
                    <=> (AuthOf(new.kind) /\ access_token' # None)
                 /\ Last(new.requests).authorization # None
                    => Last(new.requests).authorization = access_token'
           /\ (old.pc = "idle" /\ new.kind \in ApiKinds /\ ~new.missing)
              => /\ new.pc = "fetch"
                 /\ Len(new.requests) = 1
                 /\ new.result = "pending"]_vars

\* An auth request in flight without a header, no access token being stored.
C7_Witness ==
    \E c \in Calls :
        /\ calls[c].kind = "score" /\ calls[c].pc = "fetch"
        /\ Len(calls[c].requests) = 1
        /\ calls[c].requests[1].authorization = None
        /\ access_token = None
        /\ calls[c].result = "pending"

\* C8 (as stated): a finished call whose final response is not ok has raised,
\* and a non-ok response whose error is not the one raised can only be a first
\* 401 that was followed by a successful refresh and a retry.
C8_Original ==
    \A c \in Calls :
        LET call == calls[c] IN
        (call.pc = "done" /\ call.kind \in ApiKinds /\ Len(call.statuses) >= 1) =>
            /\ ~Ok(Last(call.statuses)) => call.result = "raised"
            /\ \A i \in 1..Len(call.statuses) :
                ( /\ ~Ok(call.statuses[i])
                  /\ ~(i = Len(call.statuses) /\ call.raisedBy = "response") )
                => /\ i = 1
                   /\ call.statuses[1] = 401
                   /\ call.refreshed = "true"
                   /\ TargetRequests(call) = 2

\* C9 (as stated): a login that returns a body with both tokens leaves exactly
\* those two in storage, and after such a login a refresh that fails leaves
\* both tokens absent.
C9_Original ==
    [][\A c \in Calls :
        LET old == calls[c]
            new == calls'[c]
        IN /\ ( /\ old.kind = "login" /\ old.pc = "fetch"
                /\ new.result = "returned"
                /\ new.data.access_token # None
                /\ new.data.refresh_token # None )
              => /\ access_token' = new.data.access_token
                 /\ refresh_token' = new.data.refresh_token
           /\ ( /\ \E d \in Calls \ {c} :
                     /\ calls[d].kind = "login" /\ calls[d].result = "returned"
                     /\ calls[d].data.access_token # None
                     /\ calls[d].data.refresh_token # None
                /\ old.pc \in {"refresh", "refreshJson"}
                /\ new.refreshed \in {"false", "threw"} )
              => /\ access_token' = None
                 /\ refresh_token' = None]_vars

\* C10: of the handlers, only the score submission and the reminder send a
\* request with an Authorization header or reach the refresh endpoint; login,
\* intent, audit, resources, assessments and integrations send one request to
\* their own url without the header and never refresh, whatever is stored and
\* whatever the server answers.
C10_OnlyScoreAndReminderAuthenticated ==
    \A c \in Calls :
        LET call == calls[c] IN
        call.kind \in ApiKinds =>
            /\ (\E i \in 1..Len(call.requests) : call.requests[i].authorization # None)
                => call.kind \in {"score", "reminder"}
            /\ call.kind \notin {"score", "reminder"}
                => /\ Len(call.requests) <= 1
                   /\ \A i \in 1..Len(call.requests) :
                        call.requests[i] = Request(UrlOf(call.kind), None)
                   /\ call.refreshed = "none"
            /\ ( /\ call.kind \in {"score", "reminder"}
                 /\ Len(call.statuses) >= 1 /\ call.statuses[1] = 401 )
                => call.refreshed # "none"

\* The audit submission answered 401 while both tokens are stored.
C10_Witness ==
    \E c \in Calls :
        /\ calls[c].kind = "audit" /\ calls[c].pc = "done"
        /\ calls[c].statuses = <<401>>
        /\ calls[c].requests = <<Request("/api/audit", None)>>
        /\ access_token # None /\ refresh_token # None

\* The response apiFetch was applied to, once it has dealt with it.
Answered == probe.fn = "response" /\ probe.done

\* The content types that contain the text application/json, among those of
\* the model (the comparison is by character, so a differently cased value is
\* not among them).
JsonContentTypes == {ContentJson, ContentJsonCharset}

\* C11: for a non-success response apiFetch raises an error whose message is
\* the body's detail field if present and non-empty, else its message field if
\* present and non-empty, else the body text if it is non-blank text, else
\* 'Request failed with status <code>'.  Fields are those of a body declared as
\* JSON; for a declared JSON body that does not parse the raw text and the
\* generic message are both accepted.
C11_Original ==
    (Answered /\ ~Ok(probe.response.status)) =>
        LET response == probe.response
            generic == "Request failed with status " \o ToString(response.status)
            nonBlank(text) == \E i \in 1..Len(text) : SubSeq(text, i, i) \notin WhiteSpace
            data == IF response.ctype \in JsonContentTypes
                    THEN JsonParse(response.body) ELSE Str(response.body)
            allowed ==
                IF data.type = "object" /\ data.detail \notin {None, ""} THEN {data.detail}
                ELSE IF data.type = "object" /\ data.message \notin {None, ""} THEN {data.message}
                ELSE IF data.type = "string" /\ nonBlank(data.text) THEN {data.text}
                ELSE IF data = NotJson /\ nonBlank(response.body) THEN {response.body, generic}
                ELSE {generic}
        IN  probe.out.result = "raised" /\ probe.out.message \in allowed

\* C12: the body of a response is parsed as JSON exactly when its content-type
\* header contains application/json; for any other or a missing content type
\* the body is returned, or used for the error message, as text.
C12_JsonParsedIffJsonContentType ==
    (Answered /\ probe.response.status # 204) =>
        LET response == probe.response
            parsed == JsonParse(response.body)
            text == Str(response.body)
            asJson == IF parsed = NotJson THEN Raised(SyntaxError)
                      ELSE IF Ok(response.status) THEN Returned(parsed)
                      ELSE Raised(ErrorMessage(response.status, parsed))
            asText == IF Ok(response.status) THEN Returned(text)
                      ELSE Raised(ErrorMessage(response.status, text))
        IN  /\ asJson # asText
            /\ probe.out = IF response.ctype \in JsonContentTypes THEN asJson ELSE asText

C12_Witness ==
    /\ Answered
    /\ probe.response.ctype = ContentJsonCharset
    /\ probe.response.status = 200
    /\ probe.response.body = BodySaved
    /\ probe.out.data = Obj(None, "saved", None, None)

\* C13: a response with status 204 makes apiFetch return null, whatever content
\* type and body the response has: nothing is parsed and nothing is raised.
C13_NoContentReturnsNull ==
    (Answered /\ probe.response.status = 204) => probe.out = Returned(JsonNull)

C13_Witness ==
    /\ Answered
    /\ probe.response = Response(204, ContentJson, BodyGarbage)
    /\ probe.out = Returned(JsonNull)

\* The Content-Type header the caller passed in options.headers, in any
\* spelling of the header name; None when the caller passed none.
CallerContentType(options) ==
    LET values == {pair[2] : pair \in {q \in options.headers :
                        q[1] \in {"Content-Type", "content-type", "CONTENT-TYPE"}}}
    IN  IF values = {} THEN None ELSE CHOOSE v \in values : TRUE

\* C14: apiFetch sets Content-Type: application/json exactly when options has a
\* body (not undefined, not null) that is not a FormData and the caller gave no
\* Content-Type; a caller's Content-Type is kept; without a body, or with a
\* FormData body, no Content-Type is added.
C14_ContentTypeDefault ==
    (probe.fn = "options" /\ probe.done) =>
        LET options == probe.options
            caller == CallerContentType(options)
            sent == HeadersGet(probe.sent, "Content-Type")
        IN  IF caller # None THEN sent = caller
            ELSE IF options.body \in {"undefined", "null", "FormData"} THEN sent = None
            ELSE sent = ContentJson

C14_Witness ==
    /\ probe.fn = "options" /\ probe.done
    /\ probe.options.body = "emptyString"
    /\ probe.options.headers = {<<"Accept", ContentText>>}
    /\ probe.sent = {<<"accept", ContentText>>, <<"content-type", ContentJson>>}

\* score was applied to the definition and the responses of probe.
Scored == probe.fn = "score" /\ probe.done

\* The sum of a list of integers, by positions.
RECURSIVE SumTo(_, _)
SumTo(seq, n) == IF n = 0 THEN 0 ELSE SumTo(seq, n - 1) + seq[n]

QuestionCount == Len(probe.definition.questions)

\* The responses are one per question and all on the scale.
ValidResponses ==
    /\ Len(probe.responses) = QuestionCount
    /\ \A i \in 1..Len(probe.responses) :
            probe.responses[i] \in probe.definition.scale.min..probe.definition.scale.max

\* C15: score fails with ValidationError whenever the number of responses
\* differs from the number of questions, fewer or more, and gives no
\* ScoreResult then.
C15_CountMismatchIsValidationError ==
    (Scored /\ Len(probe.responses) # QuestionCount) =>
        /\ probe.result.kind = ValidationError
        /\ probe.result.interpretation = None

C15_Witness ==
    /\ Scored
    /\ QuestionCount = 1
    /\ probe.definition.scale = [min |-> 1, max |-> 5]
    /\ probe.responses = <<3, 4>>
    /\ probe.result.kind = ValidationError

\* C16: score fails with ValidationError whenever some response is below
\* scale.min or above scale.max, at any position and whatever the others are.
C16_OutOfRangeIsValidationError ==
    (Scored /\ \E i \in 1..Len(probe.responses) :
                    \/ probe.responses[i] < probe.definition.scale.min
                    \/ probe.responses[i] > probe.definition.scale.max) =>
        probe.result.kind = ValidationError

C16_Witness ==
    /\ Scored
    /\ QuestionCount = 2
    /\ probe.definition.scale = [min |-> 1, max |-> 5]
    /\ probe.responses = <<1, 6>>
    /\ probe.result.kind = ValidationError

\* The bands of the definition partition the score space [0, max_score]: every
\* score is in exactly one band.
BandsPartition ==
    LET bands == probe.definition.bands IN
    \A t \in 0..(QuestionCount * probe.definition.scale.max) :
        Cardinality({i \in 1..Len(bands) : bands[i].min <= t /\ t <= bands[i].max}) = 1

\* The band with the lowest range.
LowestBand ==
    LET bands == probe.definition.bands IN
    CHOOSE b \in {bands[i] : i \in 1..Len(bands)} :
        \A i \in 1..Len(bands) : b.min <= bands[i].min

AllAt(value) == \A i \in 1..Len(probe.responses) : probe.responses[i] = value

\* total = sum of the responses, max_score = question count times scale.max
TotalAndMaxScore ==
    /\ probe.result.total = SumTo(probe.responses, Len(probe.responses))
    /\ probe.result.max_score = QuestionCount * probe.definition.scale.max
    /\ AllAt(probe.definition.scale.max) => probe.result.total = probe.result.max_score
    /\ AllAt(probe.definition.scale.min) =>
            probe.result.total = QuestionCount * probe.definition.scale.min

\* C17 as stated: for a valid definition and valid responses total is the sum
\* and max_score is question count times scale.max; all responses at scale.max
\* give total = max_score, all at scale.min give the minimal total, which is
\* interpreted by the lowest band.
C17_Original ==
    (Scored /\ ValidResponses /\ BandsPartition) =>
        /\ probe.result.kind = "ScoreResult"
        /\ TotalAndMaxScore
        /\ AllAt(probe.definition.scale.min) =>
                probe.result.interpretation = LowestBand.interpretation

\* C17 as amended: the same for total and max_score; the minimal total is
\* interpreted by the band of the partition that contains it, which is the
\* lowest band when that band reaches question count times scale.min.
C17_MinimalTotalInItsBand ==
    (Scored /\ ValidResponses /\ probe.result.kind = "ScoreResult") =>
        /\ TotalAndMaxScore
        /\ (BandsPartition /\ AllAt(probe.definition.scale.min)) =>
                LET bands == probe.definition.bands
                    minimal == QuestionCount * probe.definition.scale.min
                IN  /\ \E i \in 1..Len(bands) :
                            /\ bands[i].min <= minimal /\ minimal <= bands[i].max
                            /\ probe.result.interpretation = bands[i].interpretation
                    /\ LowestBand.max >= minimal =>
                            probe.result.interpretation = LowestBand.interpretation
                    /\ LowestBand.max < minimal =>
                            probe.result.interpretation # LowestBand.interpretation

C17_Witness ==
    /\ Scored /\ ValidResponses /\ BandsPartition
    /\ QuestionCount = 2
    /\ probe.responses = <<1, 1>>
    /\ LowestBand.max < 2
    /\ probe.result.total = 2
    /\ probe.result.max_score = 10
    /\ probe.result.interpretation = "rest"

\* C18: the band of a result is the first band in definition order whose
\* inclusive range contains the total (the earlier of two overlapping bands, a
\* total equal to an endpoint is inside); with no such band score fails with
\* ConfigurationError; the band depends on the definition and the total only.
C18_FirstMatchingBand ==
    (Scored /\ ValidResponses) =>
        LET bands == probe.definition.bands
            total == SumTo(probe.responses, Len(probe.responses))
            hits == {i \in 1..Len(bands) : bands[i].min <= total /\ total <= bands[i].max}
        IN  IF hits = {} THEN probe.result.kind = ConfigurationError
            ELSE LET first == CHOOSE i \in hits : \A j \in hits : i <= j IN
                 /\ probe.result.kind = "ScoreResult"
                 /\ probe.result.interpretation = bands[first].interpretation
                 /\ probe.result.guidance = bands[first].guidance

C18_Witness ==
    /\ Scored /\ ValidResponses
    /\ probe.definition.bands = <<Band(0, 5, "low", "g-low"), Band(5, 10, "high", "g-high")>>
    /\ probe.responses = <<1, 4>>
    /\ probe.result.interpretation = "low"

\* C19: scoreAudit returns the sum of the responses as score for any integers
\* and mentorship_recommended exactly when the score is above the threshold;
\* responses [3,3,3,3] with threshold 10 give score 12 and the flag true.
C19_AuditScoreAndMentorship ==
    (probe.fn = "scoreAudit" /\ probe.done) =>
        /\ probe.result.score = SumTo(probe.responses, Len(probe.responses))
        /\ probe.result.mentorship_recommended
                <=> (probe.result.score > probe.config.mentorship)
        /\ (probe.responses = <<3, 3, 3, 3>> /\ probe.config.mentorship = 10) =>
                (probe.result.score = 12 /\ probe.result.mentorship_recommended)

C19_Witness ==
    /\ probe.fn = "scoreAudit" /\ probe.done
    /\ probe.responses = <<3, 3, 3, 3>>
    /\ probe.config.mentorship = 10
    /\ probe.result.score = 12
    /\ probe.result.mentorship_recommended

\* C20: when the refresh of a call that got a 401 succeeds with a response
\* carrying an access_token, the retried request carries that token, which is
\* the stored one at that moment, and not the token of the first attempt when
\* the two differ.
C20_RetryCarriesNewToken ==
    [][\A c \in Calls : \A body \in RefreshBodies :
          ( /\ RefreshJson(c, body)
            /\ calls[c].kind \in ApiKinds
            /\ JsonParse(body).type = "object"
            /\ JsonParse(body).access_token \notin {None, ""} )
          => LET first == calls[c].requests[1]
                 retry == Last(calls'[c].requests)
                 new == JsonParse(body).access_token
             IN  /\ Len(calls'[c].requests) = 3
                 /\ retry.url = first.url
                 /\ retry.authorization = new
                 /\ retry.authorization = access_token'
                 /\ new # first.authorization => retry.authorization # first.authorization
      ]_vars

C20_Witness ==
    \E c \in Calls :
        /\ calls[c].kind \in ApiKinds
        /\ calls[c].refreshed = "true"
        /\ Len(calls[c].requests) = 3
        /\ calls[c].statuses = <<401>>
        /\ calls[c].requests[1].authorization = "a1"
        /\ calls[c].requests[3].authorization = "a2"
        /\ access_token = "a2"

\* C21: a refresh that succeeds with a response carrying an access_token
\* stores that token; the stored refresh token is replaced by the refresh_token
\* of the response when there is one and is left as it was when there is none.
C21_RefreshStoresAccessKeepsRefresh ==
    [][\A c \in Calls : \A body \in RefreshBodies :
          ( /\ RefreshJson(c, body)
            /\ JsonParse(body).type = "object"
            /\ JsonParse(body).access_token \notin {None, ""} )
          => /\ calls'[c].refreshed = "true"
             /\ access_token' = JsonParse(body).access_token
             /\ refresh_token' = IF JsonParse(body).refresh_token \notin {None, ""}
                                 THEN JsonParse(body).refresh_token
                                 ELSE refresh_token
      ]_vars

C21_Witness ==
    \E c \in Calls :
        /\ calls[c].refreshed = "true"
        /\ Last(calls[c].requests).url # RefreshUrl
        /\ calls[c].requests[2] = Request(RefreshUrl, "r1")
        /\ calls[c].requests[1].authorization = "a1"
        /\ access_token = "a2"
        /\ refresh_token = "r1"

\* C24: the clearing of the tokens by one request's rejected refresh does not
\* remove tokens that another request's successful refresh or login stored in
\* the meantime (the stored refresh token is no longer the one the rejected
\* refresh request carried).
C24_Original ==
    [][\A c \in Calls : \A status \in RefreshStatuses :
          ( /\ RefreshRejected(c, status)
            /\ refresh_token # None
            /\ Last(calls[c].requests).authorization # refresh_token
            /\ \E d \in Calls \ {c} :
                    \/ calls[d].refreshed = "true"
                    \/ calls[d].kind = "login" /\ calls[d].result = "returned" )
          => /\ access_token' = access_token
             /\ refresh_token' = refresh_token
      ]_vars

\* C25: when refreshAccessToken returns true the response carried an
\* access_token and that token is the stored one; a response without
\* access_token is not reported as a success.
C25_Original ==
    [][\A c \in Calls : \A body \in RefreshBodies :
          (RefreshJson(c, body) /\ calls'[c].refreshed = "true")
          => /\ JsonParse(body).type = "object"
             /\ JsonParse(body).access_token \notin {None, ""}
             /\ access_token' = JsonParse(body).access_token
      ]_vars

\* C26: the stored tokens change only in a step that ends a login with a
\* returned body, stores the body of a successful refresh, or handles a refresh
\* the server rejected; every other step of a call (a final response without
\* refresh, a failed login, a 401 on the retried request, a transport failure)
\* leaves both tokens as they were.
C26_TokensChangeOnlyByLoginOrRefresh ==
    [][(<<access_token, refresh_token>>' # <<access_token, refresh_token>>) =>
          \E c \in Calls :
              \/ /\ calls[c].kind = "login" /\ calls[c].pc = "fetch"
                 /\ calls'[c].pc = "done" /\ calls'[c].result = "returned"
              \/ calls[c].pc = "refreshJson" /\ calls'[c].refreshed = "true"
              \/ calls[c].pc = "refresh" /\ calls'[c].refreshed = "false"
      ]_vars

C26_Witness ==
    \E c \in Calls :
        /\ calls[c].pc = "done"
        /\ calls[c].statuses = <<401, 401>>
        /\ calls[c].refreshed = "true"
        /\ calls[c].result = "raised"
        /\ access_token = "a2"
        /\ refresh_token = "r2"

\* C27: on a network in which every exchange responds or fails, every call in
\* flight ends (apiFetch returns or throws), and no call makes more than three
\* exchanges: the first attempt, the refresh and one retry.
C27_EveryCallCompletes ==
    /\ [](\A c \in Calls : Len(calls[c].requests) <= 3 /\ Len(calls[c].statuses) <= 2)
    /\ \A c \in Calls : InFlight(calls[c]) ~> (calls[c].pc = "done")

C27_Witness ==
    \E c \in Calls :
        /\ calls[c].pc = "done"
        /\ calls[c].kind \in ApiKinds
        /\ Len(calls[c].requests) = 3
        /\ calls[c].statuses = <<401, 500>>
        /\ calls[c].result = "raised"

\* C30: a login without username or password, a score submission without
\* assessment_id or score and a reminder without journey id send no request
\* and leave the stored tokens as they were; they only show their error text.
C30_GuardsSendNothing ==
    [][\A c \in Calls :
          calls'[c].missing =>
              /\ calls'[c].kind \in {"login", "score", "reminder"}
              /\ calls'[c].requests = <<>>
              /\ calls'[c].pc = "refused"
              /\ calls'[c].raisedBy = "guard"
              /\ calls'[c].message =
                    CASE calls'[c].kind = "login" -> "Please enter both username and password."
                      [] calls'[c].kind = "score" -> "Please provide an assessment and score."
                      [] OTHER -> "Journey ID is required to send a reminder."
              /\ ~calls[c].missing =>
                    (access_token' = access_token /\ refresh_token' = refresh_token)
      ]_vars

C30_Witness ==
    \E c \in Calls :
        /\ calls[c].missing
        /\ calls[c].kind = "score"
        /\ calls[c].pc = "refused"
        /\ calls[c].requests = <<>>
        /\ access_token = "a1"
        /\ refresh_token = "r1"

\* C23: the list the generated form posts to /api/assessments/{id}/score has
\* one response per question, in question order, each an integer within
\* [scale.min, scale.max], for every definition with scale.min <= scale.max.
C23_PostedResponsesValid ==
    ( /\ probe.fn = "form" /\ probe.posted
      /\ probe.definition.scale.min <= probe.definition.scale.max ) =>
        LET scale == probe.definition.scale IN
        /\ probe.url = "/api/assessments/7/score"
        /\ Len(probe.responses) = Len(probe.definition.questions)
        /\ \A q \in 1..Len(probe.responses) :
              /\ ~probe.responses[q].isNaN
              /\ probe.responses[q].value >= scale.min
              /\ probe.responses[q].value <= scale.max
              /\ probe.responses[q].value = scale.min + probe.selects[q].selectedIndex - 1

C23_Witness ==
    /\ probe.fn = "form" /\ probe.posted
    /\ probe.definition.scale = [min |-> -2, max |-> 1]
    /\ Len(probe.definition.questions) = 2
    /\ probe.responses = <<Number(-2), Number(1)>>

\* C28: when the audit form is submitted twice before the first response
\* arrives, the audit results element finally shows the result of the more
\* recent submission, in whichever order the two responses arrive.
AuditShown(result) ==
    IF result.result = "returned" /\ result.value.type # "null"
    THEN AuditHtml(result.value)
    ELSE Text("Error: " \o (IF result.result = "raised" THEN result.message
                                                         ELSE NullRead("score")))
Overlapping(s, t) ==
    /\ s < t
    /\ probe.submissions[s].kind = "audit" /\ probe.submissions[t].kind = "audit"
    /\ probe.submissions[s].pc = "done" /\ probe.submissions[t].pc = "done"
    /\ probe.submissions[t].started < probe.submissions[s].finished
C28_Original ==
    probe.fn = "page" =>
        \A s, t \in Submissions :
            (/\ Overlapping(s, t)
             /\ \A u \in Submissions : probe.submissions[u].pc \in {"idle", "done"}
             /\ \A u \in Submissions :
                    u > t => probe.submissions[u].pc = "idle" \/ probe.submissions[u].kind # "audit")
            => probe.page.auditResults.content = AuditShown(probe.submissions[t].result)

\* C29: an intention-form submission first hides and empties the response
\* element; when its request completes the element is visible, showing the
\* server's message (or 'Intention received.') without the error class after
\* a success and 'Error: <message>' with the error class after a failure.
IntentMessage(value) ==
    IF value.type = "object" /\ Present(value.message) THEN value.message
    ELSE "Intention received."
C29_Original ==
    [][probe.fn = "page" =>
        \A s \in Submissions :
            /\ SubmitPage(s, "intent", <<>>) =>
                    /\ probe'.page.intentionResponse.content = Empty
                    /\ probe'.page.intentionResponse.display = "none"
            /\ \A result \in ResultsOf("intent", <<>>) :
                    (probe.submissions[s].kind = "intent" /\ SettlePage(s, result)) =>
                        /\ probe'.page.intentionResponse.display = "block"
                        /\ probe'.page.intentionResponse.error = (result.result = "raised")
                        /\ probe'.page.intentionResponse.content =
                               IF result.result = "raised"
                               THEN Text("Error: " \o result.message)
                               ELSE Text(IntentMessage(result.value))]_vars

\* C22: loadAssessments renders the list of a raw array and of an object's
\* assessments alike; a missing or empty list renders no items and shows the
\* non-error status 'No assessments available yet.'; a failed request shows
\* an error status and leaves the rendered list as it was.
Listed(value) ==
    IF value.type = "array" \/ (value.type = "object" /\ value.assessments = "array")
    THEN value.items ELSE <<>>
C22_Original ==
    [][probe.fn = "page" =>
        \A s \in Submissions : \A result \in ResultsOf("assessments", <<>>) :
            (probe.submissions[s].kind = "assessments" /\ SettlePage(s, result)) =>
                IF result.result = "raised"
                THEN /\ probe'.page.assessmentsStatus.error
                     /\ probe'.page.assessmentsStatus.display = "block"
                     /\ probe'.page.assessmentsList = probe.page.assessmentsList
                ELSE /\ probe'.page.assessmentsList = RenderAssessments(Listed(result.value))
                     /\ Len(Listed(result.value)) = 0 =>
                            probe'.page.assessmentsStatus =
                                Element(Text("No assessments available yet."), "block", FALSE)]_vars

====
